---- MODULE Spec2Model ----
(***************************************************************************)
(* A model of glsl_derivative.py: the symbolic differentiation of GLSL     *)
(* parse trees (get_ddx and its rules), the derivative type table          *)
(* (get_ddx_type), the per-(function, parameter) driver (get_ddx_function) *)
(* and the batch driver (convert_glsl).                                    *)
(*                                                                         *)
(* Parse tree nodes are records with a field k naming the node class.      *)
(* Python str values are "str" nodes.  Every object that has an identity   *)
(* (a grammar element or a list) carries a field own: "in" for an object   *)
(* of the caller's input tree, "new" for an object built by the call.      *)
(* Source text is a sequence of tokens.  A raised exception is a "raise"   *)
(* record that the rules propagate in the order Python evaluates.          *)
(***************************************************************************)
EXTENDS Integers, Sequences, FiniteSets, TLC

VARIABLES
    f_type, x_type, dfdx_type,      \* get_ddx_type: its two arguments and its result
    f, x, scope, dfdx,              \* get_ddx / get_ddx_function: arguments and result
    input_glsl, input_handling,     \* convert_glsl: its arguments
    output_glsl1, output_glsl2,     \* convert_glsl: the two lists it appends to
    output_glsl,                    \* convert_glsl: the list it returns
    di, pj,                         \* convert_glsl: position of the two nested loops
    pc                              \* the position of the running call

vars == <<f_type, x_type, dfdx_type, f, x, scope, dfdx, input_glsl, input_handling,
          output_glsl1, output_glsl2, output_glsl, di, pj, pc>>

(***************************************************************************)
(* Values                                                                  *)
(***************************************************************************)
None == "None"

Idle == [k |-> "idle"]

NoneNode == [k |-> "None"]

Raise(kind, what) == [k |-> "raise", kind |-> kind, what |-> what]

IsRaise(r) == r.k = "raise"

Str(s) == [k |-> "str", s |-> s]

IsStr(n) == n.k = "str"

\* A str holding the text toks, or an element of class type parsed from toks.
Text(type, toks) == [k |-> "text", own |-> "new", type |-> type, text |-> toks]

\* aown is the identity of the argument list object, own that of the node.
Call(own, ref, args) ==
    [k |-> "call", own |-> own, ref |-> ref, args |-> args, aown |-> own]

Attr(own, ref, attrs) == [k |-> "attr", own |-> own, ref |-> ref, attrs |-> attrs]

Bracket(own, content) == [k |-> "bracket", own |-> own, content |-> content]

Parens(own, content) == [k |-> "paren", own |-> own, content |-> content]

Mul(own, a, op, b) == [k |-> "mul", own |-> own, op1 |-> a, op |-> op, op2 |-> b]

Add(own, a, op, b) == [k |-> "add", own |-> own, op1 |-> a, op |-> op, op2 |-> b]

Rel(own, a, op, b) == [k |-> "rel", own |-> own, op1 |-> a, op |-> op, op2 |-> b]

Ternary(own, c, a, b) == [k |-> "tern", own |-> own, op1 |-> c, op2 |-> a, op3 |-> b]

Assign(own, a, op, b) == [k |-> "asg", own |-> own, op1 |-> a, op |-> op, op2 |-> b]

Decl(own, type, content) == [k |-> "decl", own |-> own, type |-> type, content |-> content]

If(own, c, then, else_) == [k |-> "if", own |-> own, cond |-> c, content |-> then, else_ |-> else_]

Return(own, v) == [k |-> "ret", own |-> own, value |-> v]

List(own, items) == [k |-> "list", own |-> own, items |-> items]

Param(own, type, name, quals) ==
    [k |-> "param", own |-> own, type |-> type, name |-> name, qualifiers |-> quals]

Struct(own, name, fields) == [k |-> "struct", own |-> own, name |-> name, fields |-> fields]

Function(own, type, name, params, content) ==
    [k |-> "fn", own |-> own, type |-> type, name |-> name,
     parameters |-> params, content |-> content]

(***************************************************************************)
(* The type classification sets and the literal recognizers of the grammar *)
(***************************************************************************)
float_vector_types == {"vec2", "vec3", "vec4"}

vector_types == float_vector_types \cup {"ivec2", "ivec3", "bvec3"}

matrix_types == {"mat3", "mat4"}

built_in_types == {"float", "int", "bool"} \cup vector_types \cup matrix_types

float_literal == {"0.0f", "1.0f", "2.0f"}

int_literal == {"0", "1", "2", "7"}

bool_literal == {"true", "false"}

comment == {"/*c*/", "//c"}

get_0_for_type(type_) ==
    CASE type_ = "float" -> Str("0.0f")
      [] type_ = "int"   -> Str("0")
      [] type_ = "bool"  -> Str("false")
      [] OTHER           -> Call("new", type_, <<Str("0.0f")>>)

get_1_for_type(type_) ==
    CASE type_ = "float" -> Str("1.0f")
      [] type_ = "int"   -> Str("1")
      [] type_ = "bool"  -> Str("true")
      [] OTHER           -> Call("new", type_, <<Str("1.0f")>>)

(***************************************************************************)
(* The lexical scope: variables and functions are dictionaries from names  *)
(* to types, attributes a dictionary from structure names to their fields. *)
(***************************************************************************)
Scope(variables, functions, attributes, returntype) ==
    [k |-> "scope", variables |-> variables, functions |-> functions,
     attributes |-> attributes, returntype |-> returntype]

\* Built-in functions whose result has the type of their first argument.
componentwise_functions ==
    {"sqrt", "log", "pow", "cos", "sin", "tan", "asin", "acos", "atan", "exp",
     "abs", "min", "max", "normalize", "cross"}

RECURSIVE deduce_type(_, _)
deduce_type(sc, e) ==
    CASE e.k = "str" ->
            IF e.s \in float_literal THEN "float"
            ELSE IF e.s \in int_literal THEN "int"
            ELSE IF e.s \in bool_literal THEN "bool"
            ELSE IF e.s \in DOMAIN sc.variables THEN sc.variables[e.s]
            ELSE None
      [] e.k = "paren" -> deduce_type(sc, e.content)
      [] e.k = "call" ->
            IF e.ref \in built_in_types \/ e.ref \in DOMAIN sc.attributes THEN e.ref
            ELSE IF e.ref \in {"dot", "length"} THEN "float"
            ELSE IF e.ref \in componentwise_functions
                 THEN IF Len(e.args) > 0 THEN deduce_type(sc, e.args[1]) ELSE None
            ELSE IF e.ref \in DOMAIN sc.functions THEN sc.functions[e.ref]
            ELSE None
      [] e.k = "attr" ->
            LET t == deduce_type(sc, e.ref) IN
            IF Len(e.attrs) # 1 THEN None
            ELSE IF t \in float_vector_types
                 THEN IF e.attrs[1].k = "bracket" \/ e.attrs[1].s \in {"x", "y", "z", "w"}
                      THEN "float" ELSE None
            ELSE IF t \in DOMAIN sc.attributes /\ e.attrs[1].k = "str"
                    /\ e.attrs[1].s \in DOMAIN sc.attributes[t]
                 THEN sc.attributes[t][e.attrs[1].s]
            ELSE None
      [] e.k \in {"mul", "add"} ->
            LET a == deduce_type(sc, e.op1)
                b == deduce_type(sc, e.op2) IN
            IF a = b THEN a
            ELSE IF a = "float" /\ b \in float_vector_types THEN b
            ELSE IF b = "float" /\ a \in float_vector_types THEN a
            ELSE None
      [] e.k = "rel" -> "bool"
      [] e.k = "tern" -> deduce_type(sc, e.op2)
      [] e.k = "fn" -> e.type
      [] OTHER -> None

(***************************************************************************)
(* peg.compose: the text of a tree, as its sequence of tokens              *)
(***************************************************************************)
RECURSIVE compose(_)
RECURSIVE compose_list(_, _)
RECURSIVE compose_attributes(_)
compose_list(items, sep) ==
    IF Len(items) = 0 THEN <<>>
    ELSE IF Len(items) = 1 THEN compose(items[1])
    ELSE compose(items[1]) \o sep \o compose_list(Tail(items), sep)

compose(e) ==
    CASE e.k = "str"     -> IF e.s = "" THEN <<>> ELSE <<e.s>>
      [] e.k = "text"    -> e.text
      [] e.k = "call"    -> <<e.ref, "(">> \o compose_list(e.args, <<",">>) \o <<")">>
      [] e.k = "attr"    -> compose(e.ref) \o compose_attributes(e.attrs)
      [] e.k = "bracket" -> <<"[">> \o compose(e.content) \o <<"]">>
      [] e.k = "paren"   -> <<"(">> \o compose(e.content) \o <<")">>
      [] e.k \in {"mul", "add", "rel", "asg"} ->
                            compose(e.op1) \o <<e.op>> \o compose(e.op2)
      [] e.k = "tern"    -> compose(e.op1) \o <<"?">> \o compose(e.op2)
                              \o <<":">> \o compose(e.op3)
      [] e.k = "ret"     -> <<"return">> \o compose(e.value) \o <<";">>
      [] e.k = "decl"    -> <<e.type>> \o compose_list(e.content, <<",">>) \o <<";">>
      [] e.k = "list"    -> compose_list(e.items, <<>>)
      [] OTHER           -> <<e.k>>

\* A named attribute composes with its leading dot.
compose_attributes(attrs) ==
    IF Len(attrs) = 0 THEN <<>>
    ELSE (IF attrs[1].k = "str" THEN <<".", attrs[1].s>> ELSE compose(attrs[1]))
         \o compose_attributes(Tail(attrs))

\* peg.parse(text, Class): an element of that class holding the text.
parse(toks, class) == Text(class, toks)

\* A Python str made by formatting: the text itself.
text_str(toks) == IF Len(toks) = 1 THEN Str(toks[1]) ELSE Text("str", toks)

\* The class of a node, as isinstance and type() see it.
class_of(e) == IF e.k = "text" THEN e.type ELSE e.k

unary_expression_or_less == {"call", "attr", "paren"}

binary_expression_or_less == unary_expression_or_less \cup {"mul", "add", "rel"}

additive_expression_or_less == {"add"} \cup unary_expression_or_less

multiplicative_expression_or_less == {"mul"} \cup unary_expression_or_less

maybe_wrap(expression, unambiguous_expression_types) ==
    IF class_of(expression) \in unambiguous_expression_types \/ class_of(expression) = "str"
    THEN expression
    ELSE Parens("new", expression)

(***************************************************************************)
(* copy.deepcopy, and the objects of the input a tree still refers to      *)
(***************************************************************************)
RECURSIVE deepcopy(_)
RECURSIVE deepcopy_all(_)
deepcopy_all(items) ==
    IF Len(items) = 0 THEN <<>> ELSE <<deepcopy(items[1])>> \o deepcopy_all(Tail(items))

deepcopy(e) ==
    CASE e.k \in {"str", "None", "text"} -> e
      [] e.k = "call"    -> [e EXCEPT !.own = "new", !.aown = "new", !.args = deepcopy_all(e.args)]
      [] e.k = "attr"    -> [e EXCEPT !.own = "new", !.ref = deepcopy(e.ref),
                                      !.attrs = deepcopy_all(e.attrs)]
      [] e.k \in {"bracket", "paren"} -> [e EXCEPT !.own = "new", !.content = deepcopy(e.content)]
      [] e.k \in {"mul", "add", "rel", "asg"} ->
                            [e EXCEPT !.own = "new", !.op1 = deepcopy(e.op1),
                                      !.op2 = deepcopy(e.op2)]
      [] e.k = "tern"    -> [e EXCEPT !.own = "new", !.op1 = deepcopy(e.op1),
                                      !.op2 = deepcopy(e.op2), !.op3 = deepcopy(e.op3)]
      [] e.k = "decl"    -> [e EXCEPT !.own = "new", !.content = deepcopy_all(e.content)]
      [] e.k = "if"      -> [e EXCEPT !.own = "new", !.cond = deepcopy(e.cond),
                                      !.content = deepcopy(e.content),
                                      !.else_ = deepcopy(e.else_)]
      [] e.k = "ret"     -> [e EXCEPT !.own = "new", !.value = deepcopy(e.value)]
      [] e.k = "list"    -> [e EXCEPT !.own = "new", !.items = deepcopy_all(e.items)]
      [] e.k = "fn"      -> [e EXCEPT !.own = "new", !.parameters = deepcopy_all(e.parameters),
                                      !.content = deepcopy_all(e.content)]
      [] OTHER           -> [e EXCEPT !.own = "new"]

\* Whether an object of the input (own = "in") is reachable from the tree e.
RECURSIVE shares_input(_)
RECURSIVE any_shares_input(_)
any_shares_input(items) ==
    \E i \in 1..Len(items) : shares_input(items[i])

shares_input(e) ==
    CASE e.k \in {"str", "None", "raise"} -> FALSE
      [] e.k = "text"    -> FALSE
      [] e.k = "call"    -> e.own = "in" \/ e.aown = "in" \/ any_shares_input(e.args)
      [] e.k = "attr"    -> e.own = "in" \/ shares_input(e.ref) \/ any_shares_input(e.attrs)
      [] e.k \in {"bracket", "paren"} -> e.own = "in" \/ shares_input(e.content)
      [] e.k \in {"mul", "add", "rel", "asg"} ->
                            e.own = "in" \/ shares_input(e.op1) \/ shares_input(e.op2)
      [] e.k = "tern"    -> e.own = "in" \/ shares_input(e.op1) \/ shares_input(e.op2)
                               \/ shares_input(e.op3)
      [] e.k = "decl"    -> e.own = "in" \/ any_shares_input(e.content)
      [] e.k = "if"      -> e.own = "in" \/ shares_input(e.cond) \/ shares_input(e.content)
                               \/ shares_input(e.else_)
      [] e.k = "ret"     -> e.own = "in" \/ shares_input(e.value)
      [] e.k = "list"    -> e.own = "in" \/ any_shares_input(e.items)
      [] e.k = "fn"      -> e.own = "in" \/ any_shares_input(e.parameters)
                               \/ any_shares_input(e.content)
      [] OTHER           -> e.own = "in"

(***************************************************************************)
(* get_ddx_type                                                            *)
(***************************************************************************)
\* The result is the type as a str node, or the exception raised.
get_ddx_type(ft, xt) ==
    CASE ft = None \/ xt = None                             -> Raise("AssertionError", "expected str")
      [] xt = "float" /\ ft = "float"                       -> Str("float")
      [] ft = "float" /\ xt \in vector_types               -> Str(xt)
      [] ft \in vector_types /\ xt = "float"               -> Str(ft)
      [] ft \in vector_types /\ xt = ft                    -> Str(ft)
      [] OTHER -> Raise("NotImplementedError", "variables of type")

(***************************************************************************)
(* The derivative rules                                                    *)
(***************************************************************************)
RECURSIVE get_ddx(_, _, _)

derivative_name(x_, name) == "dd" \o x_ \o "_" \o name

throw_not_implemented_error(feature) == Raise("NotImplementedError", feature)

throw_compiler_error(description) == Raise("ValueError", description)

IndexError == Raise("IndexError", "list index out of range")

get_ddx_max(f_, x_, sc) ==
    IF Len(f_.args) < 1 THEN IndexError ELSE
    LET d0 == get_ddx(f_.args[1], x_, sc) IN
    IF IsRaise(d0) THEN d0 ELSE
    IF Len(f_.args) < 2 THEN IndexError ELSE
    LET d1 == get_ddx(f_.args[2], x_, sc) IN
    IF IsRaise(d1) THEN d1 ELSE
    LET u    == compose(maybe_wrap(f_.args[1], additive_expression_or_less))
        dudx == compose(maybe_wrap(d0, binary_expression_or_less))
        v    == compose(maybe_wrap(f_.args[2], additive_expression_or_less))
        dvdx == compose(maybe_wrap(d1, binary_expression_or_less))
    IN  IF deduce_type(sc, f_.args[1]) = "float" /\ deduce_type(sc, f_.args[2]) = "float"
        THEN parse(u \o <<">">> \o v \o <<"?">> \o dudx \o <<":">> \o dvdx, "tern")
        ELSE throw_not_implemented_error("calls to component-wise max()")

\* min with the branches of its ternary exchanged.
get_ddx_min_exchanged(f_, x_, sc) ==
    IF Len(f_.args) < 1 THEN IndexError ELSE
    LET d0 == get_ddx(f_.args[1], x_, sc) IN
    IF IsRaise(d0) THEN d0 ELSE
    IF Len(f_.args) < 2 THEN IndexError ELSE
    LET d1 == get_ddx(f_.args[2], x_, sc) IN
    IF IsRaise(d1) THEN d1 ELSE
    LET u    == compose(maybe_wrap(f_.args[1], additive_expression_or_less))
        dudx == compose(maybe_wrap(d0, binary_expression_or_less))
        v    == compose(maybe_wrap(f_.args[2], additive_expression_or_less))
        dvdx == compose(maybe_wrap(d1, binary_expression_or_less))
    IN  IF deduce_type(sc, f_.args[1]) = "float" /\ deduce_type(sc, f_.args[2]) = "float"
        THEN parse(u \o <<"<">> \o v \o <<"?">> \o dvdx \o <<":">> \o dudx, "tern")
        ELSE throw_not_implemented_error("calls to component-wise min()")

get_ddx_min(f_, x_, sc) ==
    IF Len(f_.args) < 1 THEN IndexError ELSE
    LET d0 == get_ddx(f_.args[1], x_, sc) IN
    IF IsRaise(d0) THEN d0 ELSE
    IF Len(f_.args) < 2 THEN IndexError ELSE
    LET d1 == get_ddx(f_.args[2], x_, sc) IN
    IF IsRaise(d1) THEN d1 ELSE
    LET u    == compose(maybe_wrap(f_.args[1], additive_expression_or_less))
        dudx == compose(maybe_wrap(d0, binary_expression_or_less))
        v    == compose(maybe_wrap(f_.args[2], additive_expression_or_less))
        dvdx == compose(maybe_wrap(d1, binary_expression_or_less))
    IN  IF deduce_type(sc, f_.args[1]) = "float" /\ deduce_type(sc, f_.args[2]) = "float"
        THEN parse(u \o <<"<">> \o v \o <<"?">> \o dudx \o <<":">> \o dvdx, "tern")
        ELSE throw_not_implemented_error("calls to component-wise min()")

get_ddx_abs(f_, x_, sc) ==
    IF Len(f_.args) < 1 THEN IndexError ELSE
    LET d0 == get_ddx(f_.args[1], x_, sc) IN
    IF IsRaise(d0) THEN d0 ELSE
    LET u    == compose(maybe_wrap(f_.args[1], additive_expression_or_less))
        dudx == compose(maybe_wrap(d0, binary_expression_or_less))
    IN  IF deduce_type(sc, f_.args[1]) = "float"
        THEN parse(u \o <<">", "0.0f", "?">> \o dudx \o <<":", "-">> \o dudx, "tern")
        ELSE throw_not_implemented_error("calls to component-wise abs()")

get_ddx_sqrt(f_, x_, sc) ==
    IF Len(f_.args) < 1 THEN IndexError ELSE
    LET d0 == get_ddx(f_.args[1], x_, sc) IN
    IF IsRaise(d0) THEN d0 ELSE
    LET u    == compose(maybe_wrap(f_.args[1], unary_expression_or_less))
        dudx == compose(maybe_wrap(d0, unary_expression_or_less))
    IN  parse(dudx \o <<"/", "(", "2.0f", "*">> \o u \o <<")">>, "mul")

get_ddx_log(f_, x_, sc) ==
    IF Len(f_.args) < 1 THEN IndexError ELSE
    LET d0 == get_ddx(f_.args[1], x_, sc) IN
    IF IsRaise(d0) THEN d0 ELSE
    LET dudx == compose(maybe_wrap(d0, unary_expression_or_less))
    IN  Mul("new", text_str(dudx), "/", deepcopy(f_.args[1]))

get_ddx_pow(f_, x_, sc) ==
    IF Len(f_.args) < 1 THEN IndexError ELSE
    LET d0 == get_ddx(f_.args[1], x_, sc) IN
    IF IsRaise(d0) THEN d0 ELSE
    IF Len(f_.args) < 2 THEN IndexError ELSE
    LET d1 == get_ddx(f_.args[2], x_, sc) IN
    IF IsRaise(d1) THEN d1 ELSE
    LET u    == compose(f_.args[1])
        dudx == compose(maybe_wrap(d0, unary_expression_or_less))
        v    == compose(maybe_wrap(f_.args[2], unary_expression_or_less))
        dvdx == compose(maybe_wrap(d1, unary_expression_or_less))
    IN  parse(v \o <<"*", "pow", "(">> \o u \o <<",">> \o v \o <<"-", "1.0f", ")", "*">> \o dudx
              \o <<"+", "log", "(">> \o u \o <<")", "*", "pow", "(">> \o u \o <<",">> \o v
              \o <<")", "*">> \o dvdx, "add")

\* The rules of cos, tan, asin, acos and atan differ only in their formula.
one_argument_rule(f_, x_, sc, formula(_, _)) ==
    IF Len(f_.args) < 1 THEN IndexError ELSE
    LET d0 == get_ddx(f_.args[1], x_, sc) IN
    IF IsRaise(d0) THEN d0 ELSE
    parse(formula(compose(f_.args[1]), compose(maybe_wrap(d0, unary_expression_or_less))), "mul")

cos_formula(u, dudx) == <<"-", "sin", "(">> \o u \o <<")", "*">> \o dudx

tan_formula(u, dudx) == <<"pow", "(", "sec", "(">> \o u \o <<")", ",", "2.0f", ")", "*">> \o dudx

asin_formula(u, dudx) == dudx \o <<"/", "sqrt", "(", "1.0f", "-">> \o u \o <<"*">> \o u \o <<")">>

acos_formula(u, dudx) == <<"-">> \o asin_formula(u, dudx)

atan_formula(u, dudx) == dudx \o <<"/", "(", "1.0f", "+">> \o u \o <<"*">> \o u \o <<")">>

get_ddx_cos(f_, x_, sc) == one_argument_rule(f_, x_, sc, cos_formula)

get_ddx_tan(f_, x_, sc) == one_argument_rule(f_, x_, sc, tan_formula)

get_ddx_asin(f_, x_, sc) == one_argument_rule(f_, x_, sc, asin_formula)

get_ddx_acos(f_, x_, sc) == one_argument_rule(f_, x_, sc, acos_formula)

get_ddx_atan(f_, x_, sc) == one_argument_rule(f_, x_, sc, atan_formula)

get_ddx_dot(f_, x_, sc) ==
    IF Len(f_.args) # 2 THEN throw_compiler_error("dot product must have two parameters") ELSE
    LET u_type == deduce_type(sc, f_.args[1])
        v_type == deduce_type(sc, f_.args[2]) IN
    IF u_type \notin vector_types \/ v_type \notin vector_types
    THEN throw_compiler_error("dot product must only accept vectors as parameters") ELSE
    IF u_type \notin float_vector_types \/ v_type \notin float_vector_types
    THEN throw_not_implemented_error("non-floating point dot products") ELSE
    LET d0 == get_ddx(f_.args[1], x_, sc) IN
    IF IsRaise(d0) THEN d0 ELSE
    LET d1 == get_ddx(f_.args[2], x_, sc) IN
    IF IsRaise(d1) THEN d1 ELSE
    LET u    == compose(maybe_wrap(f_.args[1], unary_expression_or_less))
        dudx == compose(maybe_wrap(d0, unary_expression_or_less))
        v    == compose(maybe_wrap(f_.args[2], unary_expression_or_less))
        dvdx == compose(maybe_wrap(d1, unary_expression_or_less))
    IN  parse(<<"dot", "(">> \o u \o <<",">> \o dvdx \o <<")", "+", "dot", "(">> \o dudx
              \o <<",">> \o v \o <<")">>, "add")

dfdx_getter_names ==
    {"sqrt", "log", "pow", "cos", "tan", "asin", "acos", "atan", "abs", "min", "max",
     "dot", "normalize", "cross"}

dfdx_getter_map(f_, x_, sc) ==
    CASE f_.ref = "sqrt" -> get_ddx_sqrt(f_, x_, sc)
      [] f_.ref = "log"  -> get_ddx_log(f_, x_, sc)
      [] f_.ref = "pow"  -> get_ddx_pow(f_, x_, sc)
      [] f_.ref = "cos"  -> get_ddx_cos(f_, x_, sc)
      [] f_.ref = "tan"  -> get_ddx_tan(f_, x_, sc)
      [] f_.ref = "asin" -> get_ddx_asin(f_, x_, sc)
      [] f_.ref = "acos" -> get_ddx_acos(f_, x_, sc)
      [] f_.ref = "atan" -> get_ddx_atan(f_, x_, sc)
      [] f_.ref = "abs"  -> get_ddx_abs(f_, x_, sc)
      [] f_.ref = "min"  -> get_ddx_min(f_, x_, sc)
      [] f_.ref = "max"  -> get_ddx_max(f_, x_, sc)
      [] f_.ref = "dot"  -> get_ddx_dot(f_, x_, sc)
      [] f_.ref \in {"normalize", "cross"} ->
                            throw_not_implemented_error("non-component-wise functions")

dfdu_name_map(x_, reference) ==
    CASE reference = "length" -> "normalize"
      [] reference = "sin"    -> "cos"
      [] reference = "exp"    -> "exp"
      [] OTHER                -> derivative_name(x_, reference)

is_numeric_literal(argument) ==
    argument.k = "str" /\ (argument.s \in float_literal \/ argument.s \in int_literal)

get_ddx_invocation_expression(f_, x_, sc) ==
    IF f_.ref \in float_vector_types
       /\ \A i \in 1..Len(f_.args) : is_numeric_literal(f_.args[i])
    THEN Call("new", f_.ref, [i \in 1..Len(f_.args) |-> Str("0.0f")])
    ELSE IF f_.ref \in built_in_types
    THEN throw_not_implemented_error("constructors")
    ELSE IF f_.ref \in DOMAIN sc.attributes
    THEN throw_not_implemented_error("user-defined data structures")
    ELSE IF f_.ref \in dfdx_getter_names
    THEN dfdx_getter_map(f_, x_, sc)
    ELSE IF Len(f_.args) > 1
    THEN throw_not_implemented_error("user-defined multi-parameter functions")
    ELSE IF Len(f_.args) < 1
    THEN get_0_for_type(deduce_type(sc, f_))
    ELSE LET d0 == get_ddx(f_.args[1], x_, sc) IN
         IF IsRaise(d0) THEN d0 ELSE
         Mul("new",
             [k |-> "call", own |-> "new", ref |-> dfdu_name_map(x_, f_.ref),
              args |-> f_.args, aown |-> f_.aown],
             "*", maybe_wrap(d0, unary_expression_or_less))

\* int(vecN[-1]): the last character of a vector type name, as a number.
vector_size(vecN) ==
    CASE vecN \in {"vec2", "ivec2"}          -> 2
      [] vecN \in {"vec3", "ivec3", "bvec3"} -> 3
      [] vecN = "vec4"                       -> 4

\* int(attribute.content) for the integer literals of the grammar.
int_of(literal) ==
    CASE literal = "0" -> 0 [] literal = "1" -> 1 [] literal = "2" -> 2 [] literal = "7" -> 7

accessor_names == {"x", "y", "z", "w", "r", "g", "b", "a", "s", "t", "u", "v"}

accessor_index(attribute) ==
    CASE attribute \in {"x", "r", "s"} -> 0
      [] attribute \in {"y", "g", "t"} -> 1
      [] attribute \in {"z", "b", "u"} -> 2
      [] attribute \in {"w", "a", "v"} -> 3

\* vecN(0.0f, .., <component>, .., 0.0f): slot i (from 0) of N holds the component.
embed_component(vecN, N, i, component) ==
    IF i >= N THEN IndexError ELSE
    LET slot(j) == IF j = i + 1 THEN component ELSE <<"0.0f">>
        joined[j \in 0..N] ==
            IF j = 0 THEN <<>>
            ELSE IF j = 1 THEN slot(1)
            ELSE joined[j - 1] \o <<",">> \o slot(j)
    IN  parse(<<vecN, "(">> \o joined[N] \o <<")">>, "call")

\* One pass of the loop over f.attributes: the updated type and derivative.
attribute_step(attribute, type_, dfdx_, x_type_, sc) ==
    IF attribute.k = "bracket" THEN
        IF type_ \in matrix_types THEN throw_not_implemented_error("matrix column access")
        ELSE IF type_ \in vector_types THEN
            IF attribute.content.k = "str" /\ attribute.content.s \in int_literal THEN
                IF x_type_ = "float"
                THEN [k |-> "step", type |-> "float", dfdx |-> Attr("new", dfdx_, <<attribute>>)]
                ELSE IF x_type_ \in float_vector_types THEN
                    LET r == embed_component(type_, vector_size(type_),
                                 int_of(attribute.content.s),
                                 compose(Attr("new", dfdx_, <<attribute>>)))
                    IN  IF IsRaise(r) THEN r
                        ELSE [k |-> "step", type |-> "float", dfdx |-> r]
                ELSE throw_not_implemented_error("component access for non-float derivatives")
            ELSE throw_not_implemented_error("variable vector component access")
        ELSE throw_not_implemented_error("expressions")
    ELSE
        IF type_ \in vector_types THEN
            IF Len(attribute.s) > 1
            THEN throw_not_implemented_error("swizzling")
            ELSE IF x_type_ = "float"
            THEN [k |-> "step", type |-> "float", dfdx |-> Attr("new", dfdx_, <<attribute>>)]
            ELSE IF x_type_ \in float_vector_types THEN
                IF attribute.s \notin accessor_names
                THEN Raise("KeyError", attribute.s)
                ELSE
                LET r == embed_component(type_, vector_size(type_),
                             accessor_index(attribute.s),
                             compose(Attr("new", dfdx_, <<attribute>>)))
                IN  IF IsRaise(r) THEN r
                    ELSE [k |-> "step", type |-> "float", dfdx |-> r]
            ELSE throw_not_implemented_error("component access for non-float derivatives")
        ELSE IF type_ \in DOMAIN sc.attributes /\ attribute.s \in DOMAIN sc.attributes[type_]
        THEN throw_not_implemented_error("attribute access")
        ELSE throw_not_implemented_error("expressions")

RECURSIVE attribute_loop(_, _, _, _, _, _)
attribute_loop(attrs, i, type_, dfdx_, x_type_, sc) ==
    IF i > Len(attrs) THEN dfdx_ ELSE
    LET r == attribute_step(attrs[i], type_, dfdx_, x_type_, sc) IN
    IF IsRaise(r) THEN r
    ELSE attribute_loop(attrs, i + 1, r.type, r.dfdx, x_type_, sc)

get_ddx_attribute_expression(f_, x_, sc) ==
    LET x_type_ == deduce_type(sc, Str(x_))
        type_   == deduce_type(sc, f_.ref)
        dfdx_   == IF f_.ref.k = "str" /\ f_.ref.s = x_
                   THEN get_1_for_type(deduce_type(sc, f_))
                   ELSE IF f_.ref.k = "str"
                   THEN Str(derivative_name(x_, f_.ref.s))
                   ELSE get_ddx(f_.ref, x_, sc)
    IN  IF IsRaise(dfdx_) THEN dfdx_
        ELSE attribute_loop(f_.attrs, 1, type_, dfdx_, x_type_, sc)

get_ddx_multiplicative_expression(f_, x_, sc) ==
    LET d1 == get_ddx(f_.op1, x_, sc) IN
    IF IsRaise(d1) THEN d1 ELSE
    LET d2 == get_ddx(f_.op2, x_, sc) IN
    IF IsRaise(d2) THEN d2 ELSE
    LET u    == compose(maybe_wrap(f_.op1, unary_expression_or_less))
        dudx == compose(maybe_wrap(d1, unary_expression_or_less))
        v    == compose(maybe_wrap(f_.op2, unary_expression_or_less))
        dvdx == compose(maybe_wrap(d2, unary_expression_or_less))
    IN  IF f_.op = "*"
        THEN parse(v \o <<"*">> \o dudx \o <<"+">> \o u \o <<"*">> \o dvdx, "add")
        ELSE IF f_.op = "/"
        THEN parse(<<"(">> \o v \o <<"*">> \o dudx \o <<"-">> \o u \o <<"*">> \o dvdx
                   \o <<")", "/", "(">> \o v \o <<"*">> \o v \o <<")">>, "mul")
        ELSE throw_compiler_error("multiplicative expressions cannot have this operator")

get_ddx_additive_expression(f_, x_, sc) ==
    LET d1 == get_ddx(f_.op1, x_, sc) IN
    IF IsRaise(d1) THEN d1 ELSE
    LET d2 == get_ddx(f_.op2, x_, sc) IN
    IF IsRaise(d2) THEN d2 ELSE
    Add("new", maybe_wrap(d1, multiplicative_expression_or_less), f_.op,
               maybe_wrap(d2, multiplicative_expression_or_less))

get_ddx_parens_expression(f_, x_, sc) ==
    LET d == get_ddx(f_.content, x_, sc) IN
    IF IsRaise(d) THEN d ELSE Parens("new", d)

get_ddx_primary_expression(k_, x_, sc) ==
    IF k_.s \in comment THEN Str("")
    ELSE IF k_.s \in float_literal \/ k_.s \in int_literal \/ k_.s \in bool_literal
    THEN get_0_for_type(deduce_type(sc, k_))
    ELSE IF k_.s = x_
    THEN get_1_for_type(deduce_type(sc, k_))
    ELSE Str(derivative_name(x_, k_.s))

get_ddx_ternary_expression(f_, x_, sc) ==
    LET d2 == get_ddx(f_.op2, x_, sc) IN
    IF IsRaise(d2) THEN d2 ELSE
    LET d3 == get_ddx(f_.op3, x_, sc) IN
    IF IsRaise(d3) THEN d3 ELSE
    Ternary("new", f_.op1, maybe_wrap(d2, binary_expression_or_less),
                           maybe_wrap(d3, binary_expression_or_less))

\* The assignment rule without the comparison of the deduced types.
get_ddx_assignment_expression_untyped(f_, x_, sc) ==
    IF f_.op \notin {"=", "+=", "-="}
    THEN throw_not_implemented_error("assignments using this operator")
    ELSE IF f_.op1.k # "str"
    THEN throw_not_implemented_error("assignments to attributes or indices")
    ELSE
    LET d == get_ddx(f_.op2, x_, sc) IN
    IF IsRaise(d) THEN d
    ELSE Assign("new", Str(derivative_name(x_, f_.op1.s)), "=", d)

get_ddx_assignment_expression(f_, x_, sc) ==
    IF f_.op \notin {"=", "+=", "-="}
    THEN throw_not_implemented_error("assignments using this operator")
    ELSE IF f_.op1.k # "str"
    THEN throw_not_implemented_error("assignments to attributes or indices")
    ELSE
    LET deduced_lhs_type == deduce_type(sc, f_.op1)
        deduced_rhs_type == deduce_type(sc, f_.op2) IN
    IF deduced_lhs_type # deduced_rhs_type /\ deduced_lhs_type # None
       /\ deduced_rhs_type # None
    THEN throw_compiler_error("tried to set value to another type")
    ELSE
    LET d == get_ddx(f_.op2, x_, sc) IN
    IF IsRaise(d) THEN d
    ELSE Assign("new", Str(derivative_name(x_, f_.op1.s)), "=", d)

\* The list comprehension over f.content, stopped by the first exception.
RECURSIVE ddx_variables(_, _, _, _)
ddx_variables(content, zero, x_, sc) ==
    IF Len(content) = 0 THEN List("new", <<>>) ELSE
    LET variable == content[1]
        d == IF variable.k = "str"
             THEN get_ddx(Assign("new", variable, "=", zero), x_, sc)
             ELSE get_ddx(variable, x_, sc) IN
    IF IsRaise(d) THEN d ELSE
    LET rest == ddx_variables(Tail(content), zero, x_, sc) IN
    IF IsRaise(rest) THEN rest ELSE List("new", <<d>> \o rest.items)

get_ddx_variable_declaration(f_, x_, sc) ==
    LET x_type_    == deduce_type(sc, Str(x_))
        dfdx_type_ == get_ddx_type(f_.type, x_type_) IN
    IF IsRaise(dfdx_type_) THEN dfdx_type_ ELSE
    LET zero    == get_0_for_type(dfdx_type_.s)
        content == ddx_variables(f_.content, zero, x_, sc) IN
    IF IsRaise(content) THEN content
    ELSE Decl("new", dfdx_type_.s, content.items)

get_ddx_return_statement(f_, x_, sc) ==
    LET deduced_statement_type == deduce_type(sc, f_.value) IN
    IF deduced_statement_type # sc.returntype /\ deduced_statement_type # None
    THEN throw_compiler_error("tried to return another type")
    ELSE
    LET d == get_ddx(f_.value, x_, sc) IN
    IF IsRaise(d) THEN d ELSE Return("new", d)

get_ddx_if_statement(f_, x_, sc) ==
    LET d1 == get_ddx(f_.content, x_, sc) IN
    IF IsRaise(d1) THEN d1 ELSE
    LET d2 == get_ddx(f_.else_, x_, sc) IN
    IF IsRaise(d2) THEN d2 ELSE
    If("new", f_.cond, d1, d2)

\* The statements a block statement contributes to the derived block.
ddx_statement_keep_and_derive(statement, d) == <<deepcopy(statement), d>>

ddx_statement_derive_only(statement, d) == <<d>>

ddx_statement_derive_then_keep(statement, d) == <<d, deepcopy(statement)>>

ddx_statement(statement, d) ==
    IF statement.k = "decl" \/ statement.k = "asg"
    THEN ddx_statement_keep_and_derive(statement, d)
    ELSE ddx_statement_derive_only(statement, d)

RECURSIVE code_block_loop(_, _, _)
code_block_loop(statements, x_, sc) ==
    IF Len(statements) = 0 THEN List("new", <<>>) ELSE
    LET d == get_ddx(statements[1], x_, sc) IN
    IF IsRaise(d) THEN d ELSE
    LET rest == code_block_loop(Tail(statements), x_, sc) IN
    IF IsRaise(rest) THEN rest
    ELSE List("new", ddx_statement(statements[1], d) \o rest.items)

get_ddx_code_block(f_, x_, sc) == code_block_loop(f_.items, x_, sc)

get_ddx(f_, x_, sc) ==
    CASE f_.k = "None"  -> Raise("AssertionError", "expected any of str, list, GlslElement")
      [] f_.k = "str"   -> get_ddx_primary_expression(f_, x_, sc)
      [] f_.k = "list"  -> get_ddx_code_block(f_, x_, sc)
      [] f_.k = "call"  -> get_ddx_invocation_expression(f_, x_, sc)
      [] f_.k = "attr"  -> get_ddx_attribute_expression(f_, x_, sc)
      [] f_.k = "mul"   -> get_ddx_multiplicative_expression(f_, x_, sc)
      [] f_.k = "add"   -> get_ddx_additive_expression(f_, x_, sc)
      [] f_.k = "tern"  -> get_ddx_ternary_expression(f_, x_, sc)
      [] f_.k = "paren" -> get_ddx_parens_expression(f_, x_, sc)
      [] f_.k = "asg"   -> get_ddx_assignment_expression(f_, x_, sc)
      [] f_.k = "decl"  -> get_ddx_variable_declaration(f_, x_, sc)
      [] f_.k = "if"    -> get_ddx_if_statement(f_, x_, sc)
      [] f_.k = "ret"   -> get_ddx_return_statement(f_, x_, sc)
      [] OTHER          -> throw_not_implemented_error("elements of this kind")

(***************************************************************************)
(* Scopes: LexicalScope(code) and scope.get_subscope(function)             *)
(***************************************************************************)
empty_dict == [n \in {} |-> None]

declared_name(variable) == IF variable.k = "str" THEN variable.s ELSE variable.op1.s

RECURSIVE declared_variables(_)
RECURSIVE declaration_names(_, _)
declaration_names(content, type_) ==
    IF Len(content) = 0 THEN empty_dict
    ELSE declaration_names(Tail(content), type_) @@ (declared_name(content[1]) :> type_)

\* The variables the statements of a block declare (a later one shadows).
declared_variables(statements) ==
    IF Len(statements) = 0 THEN empty_dict ELSE
    LET s1 == statements[1]
        here == CASE s1.k = "decl" -> declaration_names(s1.content, s1.type)
                  [] s1.k = "if" ->
                        (IF s1.else_.k = "list" THEN declared_variables(s1.else_.items)
                         ELSE empty_dict) @@ declared_variables(s1.content.items)
                  [] OTHER -> empty_dict
    IN  declared_variables(Tail(statements)) @@ here

RECURSIVE parameter_variables(_)
parameter_variables(parameters) ==
    IF Len(parameters) = 0 THEN empty_dict
    ELSE parameter_variables(Tail(parameters)) @@ (parameters[1].name :> parameters[1].type)

RECURSIVE declared_functions(_)
declared_functions(code) ==
    IF Len(code) = 0 THEN empty_dict
    ELSE declared_functions(Tail(code))
         @@ (IF code[1].k = "fn" THEN code[1].name :> code[1].type ELSE empty_dict)

RECURSIVE declared_structures(_)
declared_structures(code) ==
    IF Len(code) = 0 THEN empty_dict
    ELSE declared_structures(Tail(code))
         @@ (IF code[1].k = "struct" THEN code[1].name :> code[1].fields ELSE empty_dict)

LexicalScope(code) ==
    Scope(declared_variables(code), declared_functions(code), declared_structures(code), None)

get_subscope(sc, function) ==
    Scope(declared_variables(function.content) @@ parameter_variables(function.parameters)
              @@ sc.variables,
          sc.functions, sc.attributes, function.type)

(***************************************************************************)
(* get_ddx_function                                                        *)
(***************************************************************************)
placeholder(name, error) ==
    Str("/* Derivative " \o name \o " not available: " \o error.kind \o " */")

\* Both except clauses format dfdx.name, which is bound only once the
\* FunctionDeclaration has been constructed.
except_handler(dfdx_is_bound, name, error) ==
    IF dfdx_is_bound THEN placeholder(name, error)
    ELSE Raise("UnboundLocalError", "local variable dfdx referenced before assignment")

\* r unless it is an exception; otherwise what ok makes of it.
Then(r, ok(_)) == IF IsRaise(r) THEN r ELSE ok(r)

\* A loop that seeds the derivative variable of every parameter, x included.
RECURSIVE parameter_loop_seeding_all(_, _, _, _, _, _)
parameter_loop_seeding_all(parameters, i, x_, local_scope, acc_parameters, acc_content) ==
    IF i > Len(parameters)
    THEN [k |-> "loop", parameters |-> acc_parameters, content |-> acc_content]
    ELSE IF \E q \in 1..Len(parameters[i].qualifiers) : parameters[i].qualifiers[q] = "out"
    THEN throw_not_implemented_error("output reference parameters")
    ELSE Then(get_ddx(Assign("new", Str(parameters[i].name), "=",
                             get_0_for_type(parameters[i].type)), x_, local_scope),
              LAMBDA d : parameter_loop_seeding_all(parameters, i + 1, x_, local_scope,
                             Append(acc_parameters, deepcopy(parameters[i])),
                             Append(acc_content, Decl("new", parameters[i].type, <<d>>))))

\* The loop over f.parameters: the copied parameters and the seed declarations.
RECURSIVE parameter_loop(_, _, _, _, _, _)
parameter_loop(parameters, i, x_, local_scope, acc_parameters, acc_content) ==
    IF i > Len(parameters)
    THEN [k |-> "loop", parameters |-> acc_parameters, content |-> acc_content]
    ELSE IF \E q \in 1..Len(parameters[i].qualifiers) : parameters[i].qualifiers[q] = "out"
    THEN throw_not_implemented_error("output reference parameters")
    ELSE IF parameters[i].name # x_ THEN
        Then(get_ddx(Assign("new", Str(parameters[i].name), "=",
                            get_0_for_type(parameters[i].type)), x_, local_scope),
             LAMBDA d : parameter_loop(parameters, i + 1, x_, local_scope,
                            Append(acc_parameters, deepcopy(parameters[i])),
                            Append(acc_content, Decl("new", parameters[i].type, <<d>>))))
    ELSE parameter_loop(parameters, i + 1, x_, local_scope,
             Append(acc_parameters, deepcopy(parameters[i])), acc_content)

\* The body of the try statement once dfdx is constructed.
ddx_function_body(f_, x_, local_scope, name) ==
    Then(get_ddx_type(f_.type, local_scope.variables[x_]), LAMBDA type_ :
        IF \A i \in 1..Len(f_.parameters) : f_.parameters[i].name # x_
        THEN Function("new", type_.s, name, <<>>,
                      <<Return("new", get_0_for_type(deduce_type(local_scope, f_)))>>)
        ELSE
        Then(parameter_loop(f_.parameters, 1, x_, local_scope, <<>>, <<>>), LAMBDA seeded :
        Then(get_ddx(List("in", f_.content), x_, local_scope), LAMBDA body :
            Function("new", type_.s, name, seeded.parameters, seeded.content \o body.items))))

handled(name, r) == IF IsRaise(r) THEN except_handler(TRUE, name, r) ELSE r

in_local_scope(f_, x_, local_scope, name) ==
    IF x_ \notin DOMAIN local_scope.variables
    THEN except_handler(FALSE, name, Raise("KeyError", x_))
    ELSE handled(name, ddx_function_body(f_, x_, local_scope, name))

get_ddx_function(f_, x_, sc) ==
    in_local_scope(f_, x_, get_subscope(sc, f_), derivative_name(x_, f_.name))

(***************************************************************************)
(* convert_glsl                                                            *)
(***************************************************************************)
\* glsl_simplify.get_simplified: the simplified form of a derivative entry.
get_simplified(ddx_declaration, sc) == [k |-> "simplified", of |-> ddx_declaration]

\* An element of an output list.  origin is a history field: <<i, 0>> for
\* the copy of declaration i, <<i, j>> for the derivative of declaration i
\* with respect to its parameter j.
Entry(i, j, node) == [origin |-> <<i, j>>, node |-> node]

keeps_original_always(handling) == TRUE

keeps_original(handling) == handling # "omit"

\* A driver that leaves a failed derivative out of the output.
place_derivative_unless_failed(handling, out1, out2, entry) ==
    IF entry.node.of.k = "str" THEN <<out1, out2>>
    ELSE IF handling = "prepend"
    THEN <<out1, Append(out2, entry)>>
    ELSE <<Append(out1, entry), out2>>

\* The two output lists after one derivative entry is appended.
place_derivative(handling, out1, out2, entry) ==
    IF handling = "prepend"
    THEN <<out1, Append(out2, entry)>>
    ELSE <<Append(out1, entry), out2>>

(***************************************************************************)
(* The inputs the calls are made on                                        *)
(***************************************************************************)
MaxStatements == 2

MaxParameters == 2

MaxDeclarations == 3

\* Sequences over S without repetition, of length at most n.
DistinctSeqs(S, n) ==
    UNION {{q \in [1..m -> S] : \A i, j \in 1..m : i # j => q[i] # q[j]} : m \in 0..n}

Seqs(S, n) == UNION {[1..m -> S] : m \in 0..n}

\* The types get_ddx_type is called on.
Types == built_in_types \cup {"S", None}

ProbeVariables ==
    [n \in {"x", "y", "z", "t"} |-> "float"] @@ [n \in {"u", "v"} |-> "vec3"]
    @@ ("w" :> "vec2") @@ ("p" :> "ivec3") @@ ("m" :> "mat3") @@ ("s" :> "S")
    @@ ("n" :> "int")

ProbeScope(returntype) ==
    Scope(ProbeVariables, ("g" :> "float") @@ ("k2" :> "float") @@ ("h" :> "float"),
          ("S" :> [a |-> "float"]), returntype)

Names(S) == {Str(n) : n \in S}

Atoms == Names({"x", "y", "u", "v", "1.0f", "2"})

WideAtoms == Atoms \cup Names({"w", "p", "m", "s"})

UnaryCalls(A) ==
    {Call("in", n, <<a>>) :
        n \in {"sqrt", "log", "cos", "tan", "asin", "acos", "atan", "abs", "sin", "g",
               "normalize", "length", "exp"}, a \in A}

BinaryCalls(A) ==
    {Call("in", n, <<a, b>>) : n \in {"min", "max", "pow", "dot", "cross", "k2"},
                               a \in A, b \in A}

Operations(A) ==
    {Mul("in", a, op, b) : op \in {"*", "/", "%"}, a \in A, b \in A}
    \cup {Add("in", a, op, b) : op \in {"+", "-"}, a \in A, b \in A}

Ternaries(A) ==
    {Ternary("in", Rel("in", a, ">", Str("y")), a, b) : a \in A, b \in A}
    \cup {Ternary("in", Str("c"), a, b) : a \in A, b \in A}

Accessors ==
    Names({"x", "y", "z", "w", "xy", "q", "a"})
    \cup {Bracket("in", c) : c \in Names({"0", "2", "7", "n"})}

Accesses ==
    {Attr("in", a, <<t>>) : a \in Names({"u", "v", "w", "p", "m", "s", "x"}), t \in Accessors}
    \cup {Attr("in", Str("u"), <<Str("x"), Str("y")>>),
          Attr("in", Parens("in", Add("in", Str("u"), "+", Str("v"))), <<Str("y")>>),
          Attr("in", Call("in", "cross", <<Str("u"), Str("v")>>), <<Str("x")>>)}

OtherCalls ==
    {Call("in", "vec3", <<Str("1.0f"), Str("2")>>),
     Call("in", "vec2", <<Str("0.0f"), Str("1.0f")>>),
     Call("in", "vec3", <<Str("x"), Str("y"), Str("y")>>),
     Call("in", "ivec3", <<Str("1"), Str("2"), Str("7")>>),
     Call("in", "mat3", <<Str("1.0f")>>),
     Call("in", "float", <<Str("2")>>),
     Call("in", "S", <<Str("x")>>),
     Call("in", "h", <<>>),
     Call("in", "k3", <<Str("x"), Str("y"), Str("x")>>),
     Call("in", "sqrt", <<>>),
     Call("in", "abs", <<>>),
     Call("in", "min", <<Str("x")>>),
     Call("in", "max", <<>>),
     Call("in", "pow", <<Str("x")>>),
     Call("in", "log", <<>>),
     Call("in", "cos", <<>>),
     Call("in", "dot", <<Str("u")>>),
     Call("in", "dot", <<Str("u"), Str("v"), Str("u")>>)}

Expressions1 ==
    UnaryCalls(WideAtoms) \cup BinaryCalls(Atoms \cup Names({"w", "p"})) \cup Operations(Atoms)
    \cup Ternaries(Atoms) \cup Accesses \cup OtherCalls
    \cup {Parens("in", a) : a \in Atoms}

Core1 == UnaryCalls(Atoms) \cup Operations(Atoms)

Expressions2 ==
    {Call("in", n, <<e>>) : n \in {"sqrt", "cos", "g"}, e \in Expressions1}
    \cup {Parens("in", e) : e \in Expressions1}
    \cup {Call("in", n, <<e, Str("x")>>) : n \in {"min", "max"}, e \in Core1}
    \cup {Call("in", n, <<Str("y"), e>>) : n \in {"min", "max"}, e \in Core1}
    \cup {Mul("in", e, "*", Str("x")) : e \in Core1}
    \cup {Add("in", Str("x"), "-", e) : e \in Core1}
    \cup {Ternary("in", Rel("in", e, "<", Str("x")), e, Str("y")) : e \in Core1}

Assignments ==
    {Assign("in", a, op, e) :
        a \in Names({"y", "u", "n"}) \cup {Attr("in", Str("u"), <<Str("x")>>)},
        op \in {"=", "+=", "-=", "*="},
        e \in Atoms \cup {Mul("in", Str("x"), "*", Str("y")),
                          Call("in", "cross", <<Str("u"), Str("v")>>)}}

Declarations ==
    {Decl("in", t, c) :
        t \in {"float", "vec3", "vec2", "int", "mat3"},
        c \in {<<Str("t")>>,
               <<Assign("in", Str("z"), "=", Str("x"))>>,
               <<Assign("in", Str("u"), "=", Str("v"))>>,
               <<Str("t"), Assign("in", Str("z"), "=", Mul("in", Str("x"), "*", Str("y")))>>,
               <<Assign("in", Str("z"), "=", Str("1.0f")), Str("t")>>}}

Returns == {Return("in", e) : e \in Atoms \cup Core1}

BlockStatements ==
    {Decl("in", "float", <<Assign("in", Str("z"), "=", Mul("in", Str("x"), "*", Str("y")))>>),
     Decl("in", "float", <<Str("t")>>),
     Assign("in", Str("y"), "=", Add("in", Str("x"), "+", Str("y"))),
     Assign("in", Str("z"), "+=", Str("x")),
     Return("in", Str("z")),
     Return("in", Call("in", "sqrt", <<Str("x")>>)),
     Return("in", Call("in", "cross", <<Str("u"), Str("v")>>)),
     Str("/*c*/")}

Blocks == {List("in", q) : q \in Seqs(BlockStatements, MaxStatements)}

Conditionals ==
    {If("in", Rel("in", Str("x"), ">", Str("y")), b, e) :
        b \in {List("in", <<s1>>) : s1 \in BlockStatements},
        e \in {NoneNode, List("in", <<Return("in", Str("y"))>>),
               List("in", <<Assign("in", Str("z"), "=", Str("x")), Return("in", Str("z"))>>)}}
    \cup {If("in", Str("c"), List("in", <<Return("in", Str("x"))>>),
                             List("in", <<Return("in", Str("y"))>>))}

Unsupported ==
    {Rel("in", Str("x"), ">", Str("y")), NoneNode, Str("/*c*/"), Str("true"),
     Param("in", "float", "x", <<>>)}

Nodes ==
    Atoms \cup Expressions1 \cup Expressions2 \cup Assignments \cup Declarations
    \cup Returns \cup Blocks \cup Conditionals \cup Unsupported

\* The parameters, bodies and functions get_ddx_function is called on.
ParameterPool ==
    {Param("in", "float", "x", <<>>), Param("in", "float", "y", <<"in">>),
     Param("in", "vec3", "u", <<>>), Param("in", "float", "y", <<"out">>),
     Param("in", "int", "n", <<>>), Param("in", "vec2", "w", <<"inout">>)}

ParameterLists ==
    {q \in Seqs(ParameterPool, MaxParameters) :
        \A i, j \in 1..Len(q) : i # j => q[i].name # q[j].name}

Bodies ==
    {<<Return("in", Mul("in", Str("x"), "*", Str("x")))>>,
     <<Decl("in", "float", <<Assign("in", Str("z"), "=", Mul("in", Str("x"), "*", Str("y")))>>),
       Return("in", Str("z"))>>,
     <<Return("in", Call("in", "cross", <<Str("u"), Str("u")>>))>>,
     <<Return("in", Str("u"))>>,
     <<Assign("in", Str("y"), "+=", Str("x")), Return("in", Str("y"))>>,
     <<Return("in", Str("1.0f"))>>}

Functions ==
    {Function("in", t, "f", ps, b) : t \in {"float", "vec3"}, ps \in ParameterLists, b \in Bodies}

GlobalDeclarations == <<Decl("in", "float", <<Str("a")>>), Decl("in", "vec3", <<Str("c")>>)>>

\* The declarations a compilation unit given to convert_glsl is made of.
UnitDeclarations ==
    {Function("in", "float", "square", <<Param("in", "float", "x", <<>>)>>,
              <<Return("in", Mul("in", Str("x"), "*", Str("x")))>>),
     Function("in", "float", "product",
              <<Param("in", "float", "x", <<>>), Param("in", "float", "y", <<>>)>>,
              <<Decl("in", "float", <<Assign("in", Str("z"), "=", Mul("in", Str("x"), "*", Str("y")))>>),
                Return("in", Str("z"))>>),
     Function("in", "vec3", "normal",
              <<Param("in", "vec3", "u", <<>>), Param("in", "vec3", "v", <<>>)>>,
              <<Return("in", Call("in", "cross", <<Str("u"), Str("v")>>))>>),
     Function("in", "float", "one", <<>>, <<Return("in", Str("1.0f"))>>),
     Function("in", "float", "store",
              <<Param("in", "float", "x", <<>>), Param("in", "float", "y", <<"out">>)>>,
              <<Return("in", Str("x"))>>),
     Decl("in", "float", <<Str("a")>>)}

Units == DistinctSeqs(UnitDeclarations, MaxDeclarations)

(***************************************************************************)
(* convert_glsl as a state machine: one step per pass of its loops         *)
(***************************************************************************)
CopyDeclaration ==
    /\ pc = "loop" /\ di <= Len(input_glsl)
    /\ input_glsl[di].k # "fn"
    /\ output_glsl1' = Append(output_glsl1, Entry(di, 0, deepcopy(input_glsl[di])))
    /\ di' = di + 1
    /\ UNCHANGED <<f_type, x_type, dfdx_type, f, x, scope, dfdx, input_glsl,
                   input_handling, output_glsl2, output_glsl, pj, pc>>

EnterFunction ==
    /\ pc = "loop" /\ di <= Len(input_glsl)
    /\ input_glsl[di].k = "fn"
    /\ output_glsl1' = IF keeps_original(input_handling)
                       THEN Append(output_glsl1, Entry(di, 0, deepcopy(input_glsl[di])))
                       ELSE output_glsl1
    /\ pj' = 1
    /\ pc' = "parameters"
    /\ UNCHANGED <<f_type, x_type, dfdx_type, f, x, scope, dfdx, input_glsl,
                   input_handling, output_glsl2, output_glsl, di>>

append_step(placed) ==
    /\ output_glsl1' = placed[1]
    /\ output_glsl2' = placed[2]
    /\ pj' = pj + 1
    /\ pc' = pc

\* The step of the inner loop once get_ddx_function has returned or raised.
derive_parameter_step(ddx_declaration, sc) ==
    IF IsRaise(ddx_declaration)
    THEN /\ pc' = "raised"
         /\ UNCHANGED <<output_glsl1, output_glsl2, pj>>
    ELSE append_step(place_derivative(input_handling, output_glsl1, output_glsl2,
                                      Entry(di, pj, get_simplified(ddx_declaration, sc))))

DeriveParameter ==
    /\ pc = "parameters" /\ pj <= Len(input_glsl[di].parameters)
    /\ derive_parameter_step(
           get_ddx_function(input_glsl[di], input_glsl[di].parameters[pj].name,
                            LexicalScope(input_glsl)),
           LexicalScope(input_glsl))
    /\ UNCHANGED <<f_type, x_type, dfdx_type, f, x, scope, dfdx, input_glsl,
                   input_handling, output_glsl, di>>

LeaveFunction ==
    /\ pc = "parameters" /\ pj > Len(input_glsl[di].parameters)
    /\ di' = di + 1
    /\ pc' = "loop"
    /\ UNCHANGED <<f_type, x_type, dfdx_type, f, x, scope, dfdx, input_glsl,
                   input_handling, output_glsl1, output_glsl2, output_glsl, pj>>

\* warn_of_invalid_grammar_elements only reports; it changes no list.
Assemble ==
    /\ pc = "loop" /\ di > Len(input_glsl)
    /\ output_glsl' = output_glsl1 \o output_glsl2
    /\ pc' = "done"
    /\ UNCHANGED <<f_type, x_type, dfdx_type, f, x, scope, dfdx, input_glsl,
                   input_handling, output_glsl1, output_glsl2, di, pj>>

Next == CopyDeclaration \/ EnterFunction \/ DeriveParameter \/ LeaveFunction \/ Assemble

Init ==
    /\ input_glsl \in Units
    /\ input_handling \in {"omit", "prepend", "embed", None}
    /\ output_glsl1 = <<>> /\ output_glsl2 = <<>> /\ output_glsl = <<>>
    /\ di = 1 /\ pj = 0
    /\ pc = "loop"
    /\ f_type = None /\ x_type = None /\ dfdx_type = Idle
    /\ f = Idle /\ x = None /\ scope = Idle /\ dfdx = Idle

Spec == Init /\ [][Next]_vars

(***************************************************************************)
(* A call of get_ddx_type                                                  *)
(***************************************************************************)
InitType ==
    /\ f_type \in Types /\ x_type \in Types /\ dfdx_type = Idle
    /\ f = Idle /\ x = None /\ scope = Idle /\ dfdx = Idle
    /\ input_glsl = <<>> /\ input_handling = None
    /\ output_glsl1 = <<>> /\ output_glsl2 = <<>> /\ output_glsl = <<>>
    /\ di = 0 /\ pj = 0
    /\ pc = "call"

ResolveType ==
    /\ pc = "call"
    /\ dfdx_type' = get_ddx_type(f_type, x_type)
    /\ pc' = "done"
    /\ UNCHANGED <<f_type, x_type, f, x, scope, dfdx, input_glsl, input_handling,
                   output_glsl1, output_glsl2, output_glsl, di, pj>>

SpecType == InitType /\ [][ResolveType]_vars

(***************************************************************************)
(* A call of get_ddx                                                       *)
(***************************************************************************)
InitDerive ==
    /\ f \in Nodes
    /\ x \in {"x", "u", "p"}
    /\ scope \in {ProbeScope("float"), ProbeScope("vec3")}
    /\ dfdx = Idle
    /\ f_type = None /\ x_type = None /\ dfdx_type = Idle
    /\ input_glsl = <<>> /\ input_handling = None
    /\ output_glsl1 = <<>> /\ output_glsl2 = <<>> /\ output_glsl = <<>>
    /\ di = 0 /\ pj = 0
    /\ pc = "call"

Derive ==
    /\ pc = "call"
    /\ dfdx' = get_ddx(f, x, scope)
    /\ pc' = "done"
    /\ UNCHANGED <<f_type, x_type, dfdx_type, f, x, scope, input_glsl, input_handling,
                   output_glsl1, output_glsl2, output_glsl, di, pj>>

SpecDerive == InitDerive /\ [][Derive]_vars

(***************************************************************************)
(* A call of get_ddx_function                                              *)
(***************************************************************************)
InitFunction ==
    /\ f \in Functions
    /\ x \in {"x", "y", "u", "a", "c", "q"}
    /\ scope = LexicalScope(GlobalDeclarations \o <<f>>)
    /\ dfdx = Idle
    /\ f_type = None /\ x_type = None /\ dfdx_type = Idle
    /\ input_glsl = <<>> /\ input_handling = None
    /\ output_glsl1 = <<>> /\ output_glsl2 = <<>> /\ output_glsl = <<>>
    /\ di = 0 /\ pj = 0
    /\ pc = "call"

DeriveFunction ==
    /\ pc = "call"
    /\ dfdx' = get_ddx_function(f, x, scope)
    /\ pc' = "done"
    /\ UNCHANGED <<f_type, x_type, dfdx_type, f, x, scope, input_glsl, input_handling,
                   output_glsl1, output_glsl2, output_glsl, di, pj>>

SpecFunction == InitFunction /\ [][DeriveFunction]_vars

(***************************************************************************)
(* Properties                                                              *)
(***************************************************************************)
IsParameter(fn, name) == \E i \in 1..Len(fn.parameters) : fn.parameters[i].name = name

\* C1: get_ddx_function never propagates an exception: whatever fails while
\* one (function, parameter) derivative is built, the call returns either a
\* derivative FunctionDeclaration or a placeholder comment.
C1_NoExceptionEscapes == pc = "done" => dfdx.k \in {"fn", "str"}

\* The derivative entries a unit must yield, from parameter j of declaration i on.
RECURSIVE ExpectedEntries(_, _, _)
ExpectedEntries(unit, i, j) ==
    IF i > Len(unit) THEN <<>>
    ELSE IF unit[i].k # "fn" \/ j > Len(unit[i].parameters)
    THEN ExpectedEntries(unit, i + 1, 1)
    ELSE <<Entry(i, j, get_simplified(
               get_ddx_function(unit[i], unit[i].parameters[j].name, LexicalScope(unit)),
               LexicalScope(unit)))>>
         \o ExpectedEntries(unit, i, j + 1)

IsDerivative(entry) == entry.origin[2] > 0

DerivativeEntries(out) == SelectSeq(out, IsDerivative)

\* C2: in every placement mode convert_glsl ends without a failure and its
\* output holds exactly one derivative entry per (function, parameter) pair,
\* in function order then parameter order, each the entry that pair yields
\* on its own (a function or a placeholder); a function without parameters
\* contributes none.
C2_OneEntryPerPair ==
    /\ pc # "raised"
    /\ pc = "done" => DerivativeEntries(output_glsl) = ExpectedEntries(input_glsl, 1, 1)

C2_Witness ==
    /\ pc = "done" /\ input_handling = "prepend"
    /\ \E a, b \in 1..Len(output_glsl) :
          /\ a < b
          /\ IsDerivative(output_glsl[a]) /\ output_glsl[a].node.of.k = "str"
          /\ IsDerivative(output_glsl[b]) /\ output_glsl[b].node.of.k = "fn"
    /\ \E i \in 1..Len(input_glsl) :
          input_glsl[i].k = "fn" /\ Len(input_glsl[i].parameters) = 0

\* The origins of the output when derivatives follow their own function:
\* with keep_functions the copy of each function precedes its derivatives.
RECURSIVE EmbeddedOrigins(_, _, _)
EmbeddedOrigins(unit, i, keep_functions) ==
    IF i > Len(unit) THEN <<>>
    ELSE (IF unit[i].k # "fn" THEN <<<<i, 0>>>>
          ELSE (IF keep_functions THEN <<<<i, 0>>>> ELSE <<>>)
               \o [j \in 1..Len(unit[i].parameters) |-> <<i, j>>])
         \o EmbeddedOrigins(unit, i + 1, keep_functions)

OriginsOf(out) == [n \in 1..Len(out) |-> out[n].origin]

OriginalsAreCopies(unit, out) ==
    \A n \in 1..Len(out) :
        ~IsDerivative(out[n]) => out[n].node = deepcopy(unit[out[n].origin[1]])

PrependedOutput(unit, out) ==
    /\ OriginsOf(out) = [i \in 1..Len(unit) |-> <<i, 0>>] \o OriginsOf(DerivativeEntries(out))
    /\ OriginalsAreCopies(unit, out)

EmbeddedOutput(unit, out) ==
    /\ OriginsOf(out) = EmbeddedOrigins(unit, 1, TRUE)
    /\ OriginalsAreCopies(unit, out)

\* C3 as stated: in 'omit' mode the output holds derivative entries only, no
\* declaration of the input; in 'prepend' mode all original declarations in
\* input order and then all derivative entries; in 'embed' mode each function
\* is immediately followed by the derivative entries of its own parameters.
C3_AsStated ==
    pc = "done" =>
        /\ input_handling = "omit" => \A n \in 1..Len(output_glsl) : IsDerivative(output_glsl[n])
        /\ input_handling = "prepend" => PrependedOutput(input_glsl, output_glsl)
        /\ input_handling = "embed" => EmbeddedOutput(input_glsl, output_glsl)

\* C3 amended: in 'omit' mode the output holds no function declaration of
\* the input, but every other declaration of the input is copied in place,
\* in input order among the derivative entries; 'prepend' and 'embed' as
\* stated.
C3_Placement ==
    pc = "done" =>
        /\ input_handling = "omit" =>
              /\ OriginsOf(output_glsl) = EmbeddedOrigins(input_glsl, 1, FALSE)
              /\ OriginalsAreCopies(input_glsl, output_glsl)
              /\ \A n \in 1..Len(output_glsl) :
                    ~IsDerivative(output_glsl[n]) => output_glsl[n].node.k # "fn"
        /\ input_handling = "prepend" => PrependedOutput(input_glsl, output_glsl)
        /\ input_handling = "embed" => EmbeddedOutput(input_glsl, output_glsl)

C3_Witness ==
    /\ pc = "done" /\ input_handling = "omit"
    /\ \E a, b \in 1..Len(output_glsl) :
          /\ a < b
          /\ IsDerivative(output_glsl[a])
          /\ ~IsDerivative(output_glsl[b]) /\ output_glsl[b].node.k = "decl"
    /\ \E i \in 1..Len(input_glsl) : input_glsl[i].k = "fn"

\* The derivative type table of the claim: float vectors only.
ClaimedType(ft, xt) ==
    CASE ft = "float" /\ xt = "float"                   -> Str("float")
      [] ft = "float" /\ xt \in float_vector_types     -> Str(xt)
      [] ft \in float_vector_types /\ xt = "float"     -> Str(ft)
      [] ft \in float_vector_types /\ xt = ft          -> Str(ft)
      [] OTHER                                         -> Str("Unsupported-Construct")

\* C4: get_ddx_type follows the table: (float, float) gives float, (float,
\* vecN) that vecN, (vecN, float) that vecN, (vecN, the same vecN of floats)
\* vecN; every other pair, a non-float vector on either side included,
\* raises Unsupported-Construct and returns no type.
C4_TypeTable ==
    (pc = "done" /\ dfdx_type # Idle /\ f_type # None /\ x_type # None) =>
        IF ClaimedType(f_type, x_type).s = "Unsupported-Construct"
        THEN dfdx_type.k = "raise" /\ dfdx_type.kind = "NotImplementedError"
        ELSE dfdx_type = ClaimedType(f_type, x_type)

IsKept(statement) == statement.k \in {"decl", "asg"}

KeptBefore(statements, i) == Cardinality({j \in 1..(i - 1) : IsKept(statements[j])})

\* C5: the derived block walks the statements in order; a Declaration or an
\* Assignment contributes a copy of the original immediately followed by its
\* derivative, any other statement its derivative alone, so the output has
\* the input's length plus the number of Declaration/Assignment statements.
C5_BlockDerivation ==
    (pc = "done" /\ f.k = "list" /\ dfdx.k # "raise") =>
        /\ dfdx.k = "list"
        /\ Len(dfdx.items) = Len(f.items) + KeptBefore(f.items, Len(f.items) + 1)
        /\ \A i \in 1..Len(f.items) :
              LET at == i + KeptBefore(f.items, i) IN
              IF IsKept(f.items[i])
              THEN /\ dfdx.items[at] = deepcopy(f.items[i])
                   /\ dfdx.items[at + 1] = get_ddx(f.items[i], x, scope)
              ELSE dfdx.items[at] = get_ddx(f.items[i], x, scope)

C5_Witness ==
    /\ pc = "done" /\ f.k = "list" /\ dfdx.k = "list"
    /\ Len(f.items) = 2 /\ f.items[1].k = "ret" /\ f.items[2].k = "decl"
    /\ Len(dfdx.items) = 3

\* C6: get_ddx builds its result only from new nodes: no node object and no
\* argument list of the input is reachable from the output.
C6_NoSharedNodes == (pc = "done" /\ dfdx.k # "idle") => ~shares_input(dfdx)

\* C7: the derivative of sqrt(u) is du / (2 * sqrt(u)): the denominator holds
\* the square root of the original argument, not the bare argument.
C7_SqrtRule ==
    (pc = "done" /\ f.k = "call" /\ f.ref = "sqrt" /\ Len(f.args) = 1 /\ dfdx.k # "raise") =>
        compose(dfdx) =
            compose(maybe_wrap(get_ddx(f.args[1], x, scope), unary_expression_or_less))
            \o <<"/", "(", "2.0f", "*", "sqrt", "(">> \o compose(f.args[1]) \o <<")", ")">>

IsMinOrMax(n) == n.k = "call" /\ n.ref \in {"min", "max"} /\ Len(n.args) = 2

BothFloat(n, sc) ==
    deduce_type(sc, n.args[1]) = "float" /\ deduce_type(sc, n.args[2]) = "float"

\* The text "u op v ? a : b" over the two arguments of a min or max call.
Selection(n, op, a, b) ==
    compose(maybe_wrap(n.args[1], additive_expression_or_less)) \o <<op>>
    \o compose(maybe_wrap(n.args[2], additive_expression_or_less)) \o <<"?">>
    \o compose(maybe_wrap(a, binary_expression_or_less)) \o <<":">>
    \o compose(maybe_wrap(b, binary_expression_or_less))

\* C8 as stated: min(u, v) and max(u, v) of scalar floats derive to a ternary
\* on the same comparison u > v, min to 'u > v ? dv : du' and max to
\* 'u > v ? du : dv'; otherwise the call raises Unsupported-Construct.
C8_AsStated ==
    (pc = "done" /\ IsMinOrMax(f)) =>
        LET du == get_ddx(f.args[1], x, scope)
            dv == get_ddx(f.args[2], x, scope) IN
        IF BothFloat(f, scope) /\ du.k # "raise" /\ dv.k # "raise"
        THEN dfdx.k = "text"
             /\ dfdx.text = IF f.ref = "min" THEN Selection(f, ">", dv, du)
                            ELSE Selection(f, ">", du, dv)
        ELSE dfdx.k = "raise"

\* C8 amended: of scalar floats whose derivatives exist, max(u, v) derives to
\* 'u > v ? du : dv' and min(u, v) to 'u < v ? du : dv' (when u equals v both
\* select dv); a failure to derive an argument propagates, and otherwise an
\* argument that is not a scalar float raises Unsupported-Construct.
C8_MinMaxRule ==
    (pc = "done" /\ IsMinOrMax(f)) =>
        LET du == get_ddx(f.args[1], x, scope)
            dv == get_ddx(f.args[2], x, scope) IN
        IF du.k = "raise" THEN dfdx = du
        ELSE IF dv.k = "raise" THEN dfdx = dv
        ELSE IF BothFloat(f, scope)
        THEN dfdx.k = "text" /\ dfdx.type = "tern"
             /\ dfdx.text = Selection(f, IF f.ref = "min" THEN "<" ELSE ">", du, dv)
        ELSE dfdx.k = "raise" /\ dfdx.kind = "NotImplementedError"

C8_Witness ==
    /\ pc = "done" /\ IsMinOrMax(f) /\ f.ref = "min" /\ BothFloat(f, scope)
    /\ f.args[1] # f.args[2] /\ f.args[1].k = "call"
    /\ dfdx.k = "text"

\* C9: for a target x that the scope of fn resolves but that is no parameter
\* of fn, get_ddx_function returns a function named from the prefix, x and
\* the name of fn, with the parameter list of fn, whose only statement
\* returns the zero value of the derivative return type.
C9_ZeroFunction ==
    (/\ pc = "done"
     /\ x \in DOMAIN get_subscope(scope, f).variables
     /\ ~IsParameter(f, x)
     /\ get_ddx_type(f.type, get_subscope(scope, f).variables[x]).k = "str") =>
        /\ dfdx.k = "fn"
        /\ dfdx.name = derivative_name(x, f.name)
        /\ dfdx.parameters = deepcopy_all(f.parameters)
        /\ dfdx.content = <<Return("new", get_0_for_type(
               get_ddx_type(f.type, get_subscope(scope, f).variables[x]).s))>>

IsZeroValue(n) ==
    \/ n \in {Str("0.0f"), Str("0"), Str("false")}
    \/ n.k = "call" /\ Len(n.args) > 0 /\ \A i \in 1..Len(n.args) : n.args[i] = Str("0.0f")

OtherParameters(fn, name) == SelectSeq(fn.parameters, LAMBDA q : q.name # name)

IsSeed(statement, x_, parameter) ==
    /\ statement.k = "decl" /\ Len(statement.content) = 1
    /\ statement.content[1].k = "asg" /\ statement.content[1].op = "="
    /\ statement.content[1].op1 = Str(derivative_name(x_, parameter.name))
    /\ IsZeroValue(statement.content[1].op2)

HasOutParameter(fn) ==
    \E i \in 1..Len(fn.parameters) :
        \E q \in 1..Len(fn.parameters[i].qualifiers) : fn.parameters[i].qualifiers[q] = "out"

C11_AssignmentRule ==
    (pc = "done" /\ f.k = "asg") =>
        IF f.op \notin {"=", "+=", "-="} \/ f.op1.k # "str"
        THEN dfdx.k = "raise" /\ dfdx.kind = "NotImplementedError"
        ELSE IF /\ deduce_type(scope, f.op1) # None
                /\ deduce_type(scope, f.op2) # None
                /\ deduce_type(scope, f.op1) # deduce_type(scope, f.op2)
        THEN dfdx.k = "raise" /\ dfdx.kind = "ValueError"
        ELSE IF get_ddx(f.op2, x, scope).k = "raise"
        THEN dfdx = get_ddx(f.op2, x, scope)
        ELSE /\ dfdx.k = "asg"
             /\ dfdx.op1 = Str(derivative_name(x, f.op1.s))
             /\ dfdx.op2 = get_ddx(f.op2, x, scope)

C11_Witness ==
    /\ pc = "done" /\ f.k = "asg" /\ f.op = "-=" /\ f.op1 = Str("y")
    /\ f.op2.k = "mul"
    /\ dfdx.k = "asg" /\ dfdx.op1 = Str("ddx_y")

\* C12: an in-place assignment 'v += e' (resp. 'v -= e') derives to a
\* statement that leaves the derivative variable of v equal to its previous
\* value plus (resp. minus) the derivative of e: the derived statement either
\* keeps the in-place operator or assigns the previous derivative combined
\* with the derivative of e.
C12_InPlaceAccumulates ==
    (pc = "done" /\ f.k = "asg" /\ f.op \in {"+=", "-="} /\ dfdx.k = "asg") =>
        \/ dfdx.op = f.op /\ dfdx.op2 = get_ddx(f.op2, x, scope)
        \/ /\ dfdx.op = "=" /\ dfdx.op2.k = "add"
           /\ dfdx.op2.op1 = dfdx.op1
           /\ dfdx.op2.op = (IF f.op = "+=" THEN "+" ELSE "-")
           /\ dfdx.op2.op2 \in {get_ddx(f.op2, x, scope),
                                Parens("new", get_ddx(f.op2, x, scope))}

DeclarationAgreesWithScope(declaration, sc) ==
    \A i \in 1..Len(declaration.content) :
        LET name == declared_name(declaration.content[i]) IN
        name \in DOMAIN sc.variables /\ sc.variables[name] = declaration.type

\* C13: for a declaration whose (declared type, x type) pair is one of the
\* four pairs get_ddx_type supports, and whose initialized bindings can be
\* derived, the derivative is a new declaration of the resolved type in which
\* a bare binding v becomes the derivative variable of v assigned a zero and
\* an initialized binding becomes its derived assignment, in the same order.
C13_DeclarationRule ==
    (/\ pc = "done" /\ f.k = "decl"
     /\ DeclarationAgreesWithScope(f, scope)
     /\ get_ddx_type(f.type, deduce_type(scope, Str(x))).k = "str"
     /\ \A i \in 1..Len(f.content) :
            f.content[i].k # "str" => get_ddx(f.content[i], x, scope).k # "raise") =>
        /\ dfdx.k = "decl"
        /\ dfdx.type = get_ddx_type(f.type, deduce_type(scope, Str(x))).s
        /\ Len(dfdx.content) = Len(f.content)
        /\ \A i \in 1..Len(f.content) :
              IF f.content[i].k = "str"
              THEN /\ dfdx.content[i].k = "asg" /\ dfdx.content[i].op = "="
                   /\ dfdx.content[i].op1 = Str(derivative_name(x, f.content[i].s))
                   /\ IsZeroValue(dfdx.content[i].op2)
              ELSE dfdx.content[i] = get_ddx(f.content[i], x, scope)

DotPreconditions(n, sc) ==
    /\ Len(n.args) = 2
    /\ deduce_type(sc, n.args[1]) \in float_vector_types
    /\ deduce_type(sc, n.args[2]) = deduce_type(sc, n.args[1])

\* C15: the derivative of dot(u, v) is 'dot(u, dv) + dot(du, v)' only when
\* the call has exactly two arguments that are float vectors of equal arity;
\* in every other case an Unsupported-Construct or Invalid-Expression error
\* is raised and no derivative expression is returned.
C15_DotRule ==
    (pc = "done" /\ f.k = "call" /\ f.ref = "dot") =>
        IF DotPreconditions(f, scope)
        THEN dfdx.k # "raise" =>
                compose(dfdx) =
                    <<"dot", "(">> \o compose(f.args[1]) \o <<",">>
                    \o compose(get_ddx(f.args[2], x, scope)) \o <<")", "+", "dot", "(">>
                    \o compose(get_ddx(f.args[1], x, scope)) \o <<",">>
                    \o compose(f.args[2]) \o <<")">>
        ELSE dfdx.k = "raise" /\ dfdx.kind \in {"NotImplementedError", "ValueError"}

\* A read of the form V.c or V[i] with a single attribute.
IsSingleRead(n) == n.k = "attr" /\ Len(n.attrs) = 1

\* The component (from 0) a single attribute selects, or -1 when it selects none.
ComponentOf(attribute) ==
    IF attribute.k = "bracket"
    THEN (IF attribute.content.k = "str" /\ attribute.content.s \in int_literal
          THEN int_of(attribute.content.s) ELSE -1)
    ELSE (IF attribute.s \in accessor_names THEN accessor_index(attribute.s) ELSE -1)

\* C14: a single-component read of component i of a float vecN value V
\* derives, for a float x, to component i of the derivative of V; for x a
\* float vecN of the same shape as V, to the vecN constructor holding that
\* component in slot i and the zero literal elsewhere, the derivative of V
\* being the all-ones value of x's type when V is x; for x a vector of
\* another shape, and for a swizzle, a matrix column or a field of a user
\* aggregate, Unsupported-Construct is raised.
C14_ComponentRead ==
    (/\ pc = "done" /\ IsSingleRead(f)
     /\ deduce_type(scope, Str(x)) \in {"float"} \cup vector_types
     /\ get_ddx(f.ref, x, scope).k # "raise") =>
        LET T  == deduce_type(scope, f.ref)
            i  == ComponentOf(f.attrs[1])
            dV == Attr("new", get_ddx(f.ref, x, scope), f.attrs)
            xt == deduce_type(scope, Str(x)) IN
        IF T \in float_vector_types /\ i >= 0 /\ i < vector_size(T)
        THEN IF xt = "float" THEN dfdx.k # "raise" /\ compose(dfdx) = compose(dV)
             ELSE IF xt = T
             THEN dfdx.k # "raise"
                  /\ compose(dfdx) = embed_component(T, vector_size(T), i, compose(dV)).text
             ELSE dfdx.k = "raise" /\ dfdx.kind = "NotImplementedError"
        ELSE (\/ T \in matrix_types \/ T \in DOMAIN scope.attributes
              \/ (f.attrs[1].k = "str" /\ Len(f.attrs[1].s) > 1)) =>
                 dfdx.k = "raise" /\ dfdx.kind = "NotImplementedError"

\* C16: in a derivative function built for a parameter x, the zero seed of
\* every other parameter p is declared with the derivative type
\* get_ddx_type(type of p, type of x) and initialized with the zero of that
\* same type.
C16_SeedType ==
    (pc = "done" /\ f.k = "fn" /\ dfdx.k = "fn" /\ IsParameter(f, x)) =>
        \A i \in 1..Len(OtherParameters(f, x)) :
            LET p_    == OtherParameters(f, x)[i]
                type_ == get_ddx_type(p_.type, get_subscope(scope, f).variables[x]) IN
            type_.k = "str" =>
                /\ dfdx.content[i].k = "decl"
                /\ dfdx.content[i].type = type_.s
                /\ dfdx.content[i].content[1].op2 = get_0_for_type(type_.s)

\* C17: the error set of get_ddx is closed: a call on a node that does not return a
\* derivative tree raises Unsupported-Construct (NotImplementedError) or
\* Invalid-Expression (ValueError) and no other kind of failure.
C17_ClosedErrorSet ==
    (pc = "done" /\ f.k # "None" /\ dfdx.k = "raise") =>
        dfdx.kind \in {"NotImplementedError", "ValueError"}

====
